---- MODULE Spec2Model ----
(***************************************************************************)
(* A state-machine model of the Sortme conversation orchestrator           *)
(* (backend/langgraph/graph.py), its pipeline nodes and the pure stages    *)
(* they call (merge, multi-query fan-out, reranker, validator).            *)
(*                                                                         *)
(* One conversation thread is modelled.  A turn is the server's            *)
(* _get_state/_apply_ui_events followed by SortmeGraph.run_once; run_once  *)
(* is cut into steps at its calls to external collaborators (intent        *)
(* classifier, planner, clarifier, catalog index, ranking oracle, match    *)
(* oracle, outfit builder), whose answers are nondeterministic inputs.     *)
(*                                                                         *)
(* Strings the code searches with `in` are tuples of one-character         *)
(* strings, so substring tests are computed, not assumed.                  *)
(* Scores are integers: a validator score s stands for s/100.              *)
(* Session attributes that graph.py sets dynamically and state.py does not *)
(* declare (pending_gender_prompt, profile_loaded, intent_confidence) are  *)
(* taken to start falsy, as getattr(state, "profile_loaded", False) does.  *)
(***************************************************************************)
EXTENDS Integers, Sequences, FiniteSets, TLC

VARIABLES state, pc, calls, outcome, profile_db, mq,
          _GLOBAL_TRENDS_CACHE, trend_turns

\* The module-level trends cache and the turns that load it.
trends_vars == <<_GLOBAL_TRENDS_CACHE, trend_turns>>

vars == <<state, pc, calls, outcome, profile_db, mq, _GLOBAL_TRENDS_CACHE,
          trend_turns>>

\* Python's None for string-valued fields.
NONE == "none"
\* Python's None for list-valued fields (distinct from the empty list).
NONE_LIST == <<"none">>

\* Python truthiness of an optional list.
Truthy(l) == l # NONE_LIST /\ l # <<>>

-----------------------------------------------------------------------------
(* Text helpers                                                            *)

LowerChar(c) ==
    CASE c = "M" -> "m"
      [] c = "W" -> "w"
      [] c = "S" -> "s"
      [] c = "L" -> "l"
      [] c = "F" -> "f"
      [] OTHER -> c

\* str.lower()
Lower(s) == [i \in 1..Len(s) |-> LowerChar(s[i])]

\* needle in hay
Contains(hay, needle) ==
    \E i \in 0..(Len(hay) - Len(needle)) :
        SubSeq(hay, i + 1, i + Len(needle)) = needle

\* s.strip() is empty
IsBlank(s) == \A i \in 1..Len(s) : s[i] = " "

W_men == <<"m","e","n">>
W_male == <<"m","a","l","e">>
W_menswear == <<"m","e","n","s","w","e","a","r">>
W_for_him == <<"f","o","r"," ","h","i","m">>
W_women == <<"w","o","m","e","n">>
W_female == <<"f","e","m","a","l","e">>
W_womenswear == <<"w","o","m","e","n","s","w","e","a","r">>
W_for_her == <<"f","o","r"," ","h","e","r">>
W_lady == <<"l","a","d","y">>
W_unisex == <<"u","n","i","s","e","x">>
W_both == <<"b","o","t","h">>
W_any_gender == <<"a","n","y"," ","g","e","n","d","e","r">>
W_guy == <<"g","u","y">>
W_man == <<"m","a","n">>
W_woman == <<"w","o","m","a","n">>
W_ladies == <<"l","a","d","i","e","s">>

\* The text of a gender value held in a profile or a query.
GenderText(g) ==
    CASE g = "men" -> W_men
      [] g = "women" -> W_women
      [] g = "unisex" -> W_unisex
      [] OTHER -> <<>>

-----------------------------------------------------------------------------
(* Gender helpers of SortmeGraph                                           *)

_normalize_gender(gender) ==
    IF gender = NONE THEN NONE
    ELSE LET g == Lower(GenderText(gender)) IN
         IF Contains(g, W_women) \/ Contains(g, W_female) \/ Contains(g, W_lady)
         THEN "women"
         ELSE IF Contains(g, W_men) \/ Contains(g, W_male) \/ Contains(g, W_guy)
         THEN "men"
         ELSE IF Contains(g, W_unisex) \/ Contains(g, W_both)
         THEN "unisex"
         ELSE NONE

_extract_gender_from_message(message) ==
    LET lowered == Lower(message) IN
    IF lowered = <<>> THEN NONE
    ELSE IF \E w \in {W_men, W_male, W_menswear, W_for_him} : Contains(lowered, w)
    THEN "men"
    ELSE IF \E w \in {W_women, W_female, W_womenswear, W_for_her, W_lady} :
              Contains(lowered, w)
    THEN "women"
    ELSE IF Contains(lowered, W_unisex) \/ Contains(lowered, W_both)
              \/ Contains(lowered, W_any_gender)
    THEN "unisex"
    ELSE NONE

-----------------------------------------------------------------------------
(* Products and list helpers                                               *)

Min(a, b) == IF a < b THEN a ELSE b

\* s[:n]
Take(s, n) == SubSeq(s, 1, Min(n, Len(s)))

\* s[n:]
Drop(s, n) == SubSeq(s, Min(n, Len(s)) + 1, Len(s))

\* A candidate as the retrievers build it (_to_product, _normalise).  rel is the
\* score the ranking oracle gives the candidate's rendered document;
\* origin_query is <<>> until _search_single tags the item; has_image
\* is "image_url is an http string"; title_ok is "the query has no item_type
\* or the lower-cased title contains it"; color is the list of colour names
\* and pattern the pattern text (<<>> when absent); disallowed is "category or
\* title holds a blocked token".
Product(id, url, brand, source, rel, has_image, title_ok) ==
    [id |-> id, url |-> url, brand |-> brand, source |-> source, rel |-> rel,
     has_image |-> has_image, title_ok |-> title_ok, color |-> <<>>,
     pattern |-> <<>>, disallowed |-> FALSE,
     origin_query |-> <<>>, validator_score |-> 0]

-----------------------------------------------------------------------------
(* MergeNode                                                               *)

\* Length of the final product list (deduped[:8], (balanced or ranked)[:8]).
FinalCap == 8

\* A merge that does not sort.
InputOrder(s) == s

\* A merge that does not deduplicate.
KeepAll(s, seen) == s

\* list.sort(key=validator_score, reverse=True): stable, equal keys keep
\* their input order.
RECURSIVE SortByValidatorScoreDesc(_)
SortByValidatorScoreDesc(s) ==
    IF s = <<>> THEN <<>>
    ELSE LET t == SortByValidatorScoreDesc(SubSeq(s, 1, Len(s) - 1))
             x == s[Len(s)]
             k == Cardinality({i \in 1..Len(t) :
                                 t[i].validator_score >= x.validator_score})
         IN SubSeq(t, 1, k) \o <<x>> \o SubSeq(t, k + 1, Len(t))

\* The key MergeNode deduplicates on: item.get("id").
MergeKey(item) == item.id

\* The seen_ids loop: the first item of each key is kept.
RECURSIVE DedupeByKey(_, _)
DedupeByKey(s, seen) ==
    IF s = <<>> THEN <<>>
    ELSE IF MergeKey(s[1]) \in seen
         THEN DedupeByKey(Tail(s), seen)
         ELSE <<s[1]>> \o DedupeByKey(Tail(s), seen \cup {MergeKey(s[1])})

\* merged = qdrant_valid + web_valid; sort; dedupe; [:8]
MergeLists(qdrant_valid, web_valid) ==
    Take(DedupeByKey(SortByValidatorScoreDesc(qdrant_valid \o web_valid), {}),
         FinalCap)

MergeNode(st) ==
    [st EXCEPT !.final_products = MergeLists(st.qdrant_valid, st.web_valid)]

-----------------------------------------------------------------------------
(* Reranker                                                                *)

\* Brand cap of the reranker's diversity pass (max_per_brand=2).
RerankBrandCap == 2

\* (item.get("brand") or "unknown").lower()
BrandKey(item) == IF item.brand = NONE THEN "unknown" ELSE item.brand

\* rerank_qwen_sync: "fail" is any failure of the oracle call that reaches
\* Reranker.rerank as an exception; otherwise indices sorted by the oracle's
\* scores, best first (sorted(..., reverse=True) is stable), cut to top_k.
SortIndicesByRelDesc(cands, n) ==
    LET place(i) == 1 + Cardinality({j \in 1..n :
                          \/ cands[j].rel > cands[i].rel
                          \/ cands[j].rel = cands[i].rel /\ j < i})
    IN [k \in 1..n |-> CHOOSE i \in 1..n : place(i) = k]

rerank_qwen(cands, top_k) ==
    IF Len(cands) = 1 THEN <<1>>
    ELSE Take(SortIndicesByRelDesc(cands, Len(cands)), Min(top_k, Len(cands)))

\* First pass of _apply_brand_diversity: walks the candidates, picks while the
\* brand is under the cap, defers the rest, and returns as soon as target items
\* are picked.  acc = [picked, deferred, counts, done].
RECURSIVE DiversityFirstPass(_, _, _, _)
DiversityFirstPass(cands, i, target, acc) ==
    IF i > Len(cands) \/ acc.done THEN acc
    ELSE LET item == cands[i]
             b == BrandKey(item)
             under == acc.counts[b] < RerankBrandCap
             picked == IF under THEN Append(acc.picked, item) ELSE acc.picked
         IN DiversityFirstPass(cands, i + 1, target,
              [picked |-> picked,
               deferred |-> IF under THEN acc.deferred ELSE Append(acc.deferred, item),
               counts |-> IF under THEN [acc.counts EXCEPT ![b] = @ + 1] ELSE acc.counts,
               done |-> Len(picked) >= target])

\* Third pass: fill from the original order, skipping ids already picked.
RECURSIVE DiversityFill(_, _, _, _)
DiversityFill(cands, i, target, picked) ==
    IF i > Len(cands) \/ Len(picked) >= target THEN picked
    ELSE IF \E j \in 1..Len(picked) : picked[j].id = cands[i].id
         THEN DiversityFill(cands, i + 1, target, picked)
         ELSE DiversityFill(cands, i + 1, target, Append(picked, cands[i]))

\* The second pass re-checks the cap on deferred items; every deferred item's
\* brand is at the cap already, so it picks nothing.
_apply_brand_diversity(cands, limit) ==
    IF cands = <<>> THEN <<>>
    ELSE LET target == IF limit = 0 THEN Len(cands) ELSE limit
             brands == {BrandKey(cands[i]) : i \in 1..Len(cands)}
             first == DiversityFirstPass(cands, 1, target,
                        [picked |-> <<>>, deferred |-> <<>>,
                         counts |-> [b \in brands |-> 0], done |-> FALSE])
         IN IF first.done THEN Take(first.picked, target)
            ELSE Take(DiversityFill(cands, 1, target, first.picked), target)

\* Reranker.rerank(query, candidates, top_k); oracle_ok = FALSE is the except
\* branch (order = range(min(top_k, len))).
Rerank(cands, top_k, oracle_ok) ==
    IF cands = <<>> THEN <<>>
    ELSE LET order == IF oracle_ok THEN rerank_qwen(cands, top_k)
                      ELSE [i \in 1..Min(top_k, Len(cands)) |-> i]
             reranked == [i \in 1..Len(order) |-> cands[order[i]]]
         IN Take(_apply_brand_diversity(reranked, top_k), top_k)

-----------------------------------------------------------------------------
(* MultiQueryRetrieveNode helpers                                          *)

\* At most this many sub-queries are dispatched (product_queries[:4]).
MaxSubQueries == 4

\* top_k of the per-sub-query search and of the single rerank pass.
MultiTopK == 40

\* per_query_cap of _balance_by_query.
PerQueryCap == 3

\* A pooling step that does not deduplicate.
NoDedupe(products) == products

\* pid = p.get("id") or p.get("url")
DedupeKey(p) == IF p.id # NONE THEN p.id ELSE p.url

DedupeSeen(s, seen) ==
    LET first(i) == /\ DedupeKey(s[i]) \notin seen
                    /\ \A j \in 1..(i - 1) : DedupeKey(s[j]) # DedupeKey(s[i])
        kept == SelectSeq([i \in 1..Len(s) |-> i], first)
    IN [k \in 1..Len(kept) |-> s[kept[k]]]

_dedupe(products) == DedupeSeen(products, {})

\* buckets[q]: the positions in ranked of the first per_query_cap items whose
\* origin_query is q.
RECURSIVE FillBuckets(_, _, _)
FillBuckets(ranked, i, buckets) ==
    IF i > Len(ranked) THEN buckets
    ELSE LET o == ranked[i].origin_query IN
         IF o \in DOMAIN buckets /\ Len(buckets[o]) < PerQueryCap
         THEN FillBuckets(ranked, i + 1, [buckets EXCEPT ![o] = Append(@, i)])
         ELSE FillBuckets(ranked, i + 1, buckets)

\* The while/for round-robin: qi is the position in queries of the for loop.
RECURSIVE RoundRobin(_, _, _, _, _)
RoundRobin(queries, buckets, balanced, qi, n) ==
    IF qi = 1 /\ (Len(balanced) >= n \/ \A q \in DOMAIN buckets : buckets[q] = <<>>)
    THEN balanced
    ELSE IF qi > Len(queries)
    THEN RoundRobin(queries, buckets, balanced, 1, n)
    ELSE LET q == queries[qi] IN
         IF buckets[q] # <<>>
         THEN LET b2 == Append(balanced, Head(buckets[q]))
                  k2 == [buckets EXCEPT ![q] = Tail(@)]
              IN IF Len(b2) >= n
                 THEN RoundRobin(queries, k2, b2, 1, n)
                 ELSE RoundRobin(queries, k2, b2, qi + 1, n)
         ELSE RoundRobin(queries, buckets, balanced, qi + 1, n)

\* Object identity (id(item)) is the item's position in ranked.
_balance_by_query(ranked, queries) ==
    LET qs == {queries[i] : i \in 1..Len(queries)}
        buckets == FillBuckets(ranked, 1, [q \in qs |-> <<>>])
        picked == RoundRobin(queries, buckets, <<>>, 1, Len(ranked))
        chosen == {picked[i] : i \in 1..Len(picked)}
        rest == SelectSeq([i \in 1..Len(ranked) |-> i], LAMBDA i : i \notin chosen)
        order == picked \o rest
    IN [i \in 1..Len(order) |-> ranked[order[i]]]

\* Lines 79-100 of MultiQueryRetrieveNode.__call__: dedupe, one rerank pass,
\* balance; returns the pooled list.
PoolResults(all_results, product_queries, oracle_ok) ==
    LET deduped == _dedupe(all_results)
        ranked == Rerank(deduped, MultiTopK, oracle_ok)
        balanced == IF deduped = <<>> THEN <<>>
                    ELSE _balance_by_query(ranked, product_queries)
    IN IF balanced # <<>> THEN balanced ELSE ranked

-----------------------------------------------------------------------------
(* Session state (SortmeState) and the nodes that only rewrite it          *)

\* The three options both gender prompts offer (values of the option dicts).
GENDER_OPTIONS == <<"men", "women", "unisex">>

\* fashion_query = None
NoQuery ==
    [is_set |-> FALSE, query_type |-> NONE, intent |-> NONE, gender |-> NONE,
     needs_clarification |-> FALSE, disambiguation |-> <<>>,
     destination |-> NONE, raw_query |-> <<>>,
     colors |-> <<>>, color_mode |-> NONE, pattern |-> <<>>]

\* SortmeState(user_id=..., user_message=...) with every field at its default.
NewState(user_message) ==
    [user_message |-> user_message,
     conversation_history |-> <<>>,
     user_profile |-> [gender |-> NONE],
     profile_loaded |-> FALSE,
     pending_gender_prompt |-> FALSE,
     fashion_query |-> NoQuery,
     intent_confidence |-> 0,
     planner_plan |-> [product_queries |-> <<>>, weather_search_query |-> FALSE],
     weather_context |-> FALSE,
     mode |-> NONE,
     ambiguities |-> <<>>,
     disambiguation_cards |-> <<>>,
     chosen_disambiguation |-> NONE,
     clarification_options |-> NONE_LIST,
     clarification_question |-> NONE,
     clarification_choice |-> NONE,
     clarification_source_query |-> NONE_LIST,
     qdrant_candidates |-> <<>>,
     qdrant_filtered |-> <<>>,
     qdrant_valid |-> <<>>,
     web_candidates |-> <<>>,
     web_valid |-> <<>>,
     pooled_valid_products |-> <<>>,
     outfits |-> <<>>,
     final_products |-> <<>>,
     stylist_response |-> NONE,
     ui_event |-> NONE]

\* StylistAgent.__call__: which response the agent writes (the prose itself is
\* the narration layer's).
StylistAgent(mode, options, choice, outfits) ==
    IF mode = "greeting" THEN "greeting"
    ELSE IF mode = "capabilities_overview" THEN "capabilities"
    ELSE IF mode = "trending" THEN "trending"
    ELSE IF mode = "user_info_stored" THEN "user_info"
    ELSE IF mode = "nudge" THEN "nudge"
    ELSE IF Truthy(options) /\ choice = NONE THEN "clarification"
    ELSE IF outfits # <<>> THEN "outfits"
    ELSE "product"

StylistNode(st) ==
    [st EXCEPT !.stylist_response =
        StylistAgent(st.mode, st.clarification_options, st.clarification_choice,
                     st.outfits)]

\* UINode.__call__; a ui_event is modelled by its "type".
UINode(st) ==
    IF st.ui_event = "disambiguation" /\ st.chosen_disambiguation = NONE
    THEN st
    ELSE IF Truthy(st.clarification_options) /\ st.clarification_choice = NONE
    THEN [st EXCEPT !.ui_event = "clarification_cards"]
    ELSE IF st.mode = "capabilities_overview"
    THEN [st EXCEPT !.ui_event = "capability_chips"]
    ELSE IF st.outfits # <<>>
    THEN [st EXCEPT !.ui_event = "outfit_refinements"]
    ELSE IF st.final_products # <<>>
    THEN [st EXCEPT !.ui_event = "refinements"]
    ELSE st

\* _persist_gender: the session part.
_persist_gender(st, gender) ==
    LET gender_norm == _normalize_gender(gender) IN
    IF gender = NONE \/ gender_norm = NONE THEN st
    ELSE [st EXCEPT !.fashion_query.gender = gender_norm,
                    !.fashion_query.is_set = TRUE,
                    !.user_profile.gender = gender_norm,
                    !.pending_gender_prompt = FALSE,
                    !.profile_loaded = TRUE]

\* _persist_gender: the profile store after save_profile (called only when the
\* session's profile gender changes).
SavedProfile(st, gender, db) ==
    LET gender_norm == _normalize_gender(gender) IN
    IF gender = NONE \/ gender_norm = NONE THEN db
    ELSE IF st.user_profile.gender # gender_norm THEN gender_norm
    ELSE db

\* A gate that lets every query through.
AlwaysProceed(st) == [state |-> st, proceed |-> TRUE]

\* gender = message_gender or query_gender or profile_gender
ResolvedGender(st) ==
    LET profile_gender == _normalize_gender(st.user_profile.gender)
        query_gender == _normalize_gender(st.fashion_query.gender)
        message_gender == _extract_gender_from_message(st.user_message)
    IN IF message_gender # NONE THEN message_gender
       ELSE IF query_gender # NONE THEN query_gender
       ELSE profile_gender

\* _ensure_gender: [state, proceed]
_ensure_gender(st) ==
    IF ResolvedGender(st) # NONE
    THEN [state |-> _persist_gender(st, ResolvedGender(st)), proceed |-> TRUE]
    ELSE [state |-> UINode([st EXCEPT
                        !.pending_gender_prompt = TRUE,
                        !.mode = "gender_prompt",
                        !.clarification_question = "Who am I styling today?",
                        !.clarification_options = GENDER_OPTIONS,
                        !.stylist_response = "gender_prompt",
                        !.ui_event = NONE]),
          proceed |-> FALSE]

-----------------------------------------------------------------------------
(* CatalogRetriever                                                        *)

\* cap of _rebalance_brand_pool
BrandPoolCap == 3

\* Number of mock products the search falls back to (min(top_k, 8)).
FallbackCount == 8

\* The running per-brand count before position i.
BrandCountBefore(products, i) ==
    Cardinality({j \in 1..(i - 1) : BrandKey(products[j]) = BrandKey(products[i])})

\* capped + overflow: an item is capped iff fewer than cap earlier items share
\* its brand (counts only grow while a brand is under the cap).
_rebalance_brand_pool(products) ==
    LET idx == [i \in 1..Len(products) |-> i]
        capped == SelectSeq(idx, LAMBDA i : BrandCountBefore(products, i) < BrandPoolCap)
        overflow == SelectSeq(idx, LAMBDA i : BrandCountBefore(products, i) >= BrandPoolCap)
        order == capped \o overflow
    IN [i \in 1..Len(order) |-> products[order[i]]]

_is_disallowed_product(product) == product.disallowed

MockIds ==
    <<"qdrant-fallback-0", "qdrant-fallback-1", "qdrant-fallback-2",
      "qdrant-fallback-3", "qdrant-fallback-4", "qdrant-fallback-5",
      "qdrant-fallback-6", "qdrant-fallback-7">>

\* _mock_product(idx, query, source="qdrant-fallback"); position = idx + 1
_mock_product(position) ==
    Product(MockIds[position], NONE, "fallback", "qdrant-fallback", 0, TRUE, TRUE)

\* A search that has no fallback.
EmptySearch(points, top_k, index_ok) == <<>>

\* CatalogRetriever.search: points is what the index answers for the query
\* (already converted by _to_product); index_ok = FALSE is the except branch.
CatalogSearch(points, top_k, index_ok) ==
    IF index_ok
    THEN Take(_rebalance_brand_pool(
                 SelectSeq(points, LAMBDA p : ~_is_disallowed_product(p))), top_k)
    ELSE [i \in 1..Min(top_k, FallbackCount) |-> _mock_product(i)]

-----------------------------------------------------------------------------
(* VisionValidator                                                         *)

\* Only the first 12 candidates with images are sent to the match oracle.
VisionLimit == 12

HeuristicBaseCatalog == 90
HeuristicBaseOther == 80
HeuristicFloor == 50
HeuristicStep == 2
HeuristicMaxPenalty == 20

\* _score_product(position, source), as an integer percentage
_score_product(position, source) ==
    LET base == IF source = "qdrant" THEN HeuristicBaseCatalog ELSE HeuristicBaseOther
        penalty == Min(position * HeuristicStep, HeuristicMaxPenalty)
    IN IF base - penalty > HeuristicFloor THEN base - penalty ELSE HeuristicFloor

\* A heuristic that looks at the title only.
TitleOnly(query, product) == ~product.title_ok

\* expected_pattern and product pattern are both given and the first is not
\* a substring of the second.
PatternMismatch(query, product) ==
    /\ query.pattern # <<>>
    /\ product.pattern # <<>>
    /\ ~Contains(product.pattern, query.pattern)

\* missing_colors is non-empty: a query colour is not among the product's
\* lower-cased colours.
MissingColors(query, product) ==
    \E i \in 1..Len(query.colors) :
       \A j \in 1..Len(product.color) : Lower(product.color[j]) # query.colors[i]

\* _validate_product returns a non-empty reason: colours missing under
\* color_mode all_required, a pattern mismatch, or a title without the item type.
_validate_product(query, product) ==
    \/ MissingColors(query, product) /\ query.color_mode = "all_required"
    \/ PatternMismatch(query, product)
    \/ ~product.title_ok

\* _heuristic_validate: rows [id, score, tag]; idx restarts at 0 in every call
_heuristic_validate(query, candidates, source) ==
    LET rows == [i \in 1..Len(candidates) |->
                   [id |-> candidates[i].id,
                    score |-> _score_product(i - 1, source),
                    tag |-> IF i - 1 = 0 THEN "best_match" ELSE "close_match",
                    bad |-> _validate_product(query, candidates[i])]]
        Row(r) == [id |-> r.id, score |-> r.score, tag |-> r.tag]
        ok == SelectSeq(rows, LAMBDA r : ~r.bad)
        ko == SelectSeq(rows, LAMBDA r : r.bad)
    IN [valid |-> [i \in 1..Len(ok) |-> Row(ok[i])],
        invalid |-> [i \in 1..Len(ko) |-> Row(ko[i])]]

\* The rows before enrichment.  answer is the match oracle's reply for the
\* vision candidates: raised, or its valid and invalid rows.
VisionRows(query, candidates, source, answer) ==
    LET with_images == SelectSeq(candidates, LAMBDA c : c.has_image)
        without_images == SelectSeq(candidates, LAMBDA c : ~c.has_image)
        vision_candidates == Take(with_images, VisionLimit)
        remaining_candidates == Drop(with_images, VisionLimit)
        none == [valid |-> <<>>, invalid |-> <<>>]
        first == IF vision_candidates = <<>> THEN none
                 ELSE IF answer.raised
                 THEN _heuristic_validate(query, vision_candidates, source)
                 ELSE [valid |-> answer.valid, invalid |-> answer.invalid]
        second == IF remaining_candidates = <<>> THEN none
                  ELSE _heuristic_validate(query, remaining_candidates, source)
        third == IF without_images = <<>> THEN none
                 ELSE _heuristic_validate(query, without_images, source)
    IN [valid |-> first.valid \o second.valid \o third.valid,
        invalid |-> first.invalid \o second.invalid \o third.invalid]

\* candidate_map[id]: the last candidate carrying the id
LastWithId(candidates, id) ==
    candidates[CHOOSE i \in 1..Len(candidates) :
                  /\ candidates[i].id = id
                  /\ \A j \in (i + 1)..Len(candidates) : candidates[j].id # id]

\* original["score"] after the enrichment loop: the last valid row of the id
LastScore(rows, id) ==
    rows[CHOOSE i \in 1..Len(rows) :
            /\ rows[i].id = id
            /\ \A j \in (i + 1)..Len(rows) : rows[j].id # id].score

\* The enrichment loops of _llm_validate: every row whose id is a candidate's
\* becomes that candidate (candidate_map keeps the last of an id); rows of
\* other ids are dropped.
Enrich(candidates, rows) ==
    LET ids == {candidates[i].id : i \in 1..Len(candidates)}
        known == SelectSeq(rows, LAMBDA r : r.id \in ids)
    IN [i \in 1..Len(known) |-> LastWithId(candidates, known[i].id)]

\* VisionValidator.validate: {"valid": enriched_valid, "invalid": enriched_invalid}
Validate(query, candidates, source, answer) ==
    LET rows == VisionRows(query, candidates, source, answer) IN
    [valid |-> Enrich(candidates, rows.valid),
     invalid |-> Enrich(candidates, rows.invalid)]

\* VisionValidator.validate followed by the node's _attach_products: one
\* product per valid row whose id is a candidate's, in row order, carrying the
\* row's score as validator_score.
ValidateAndAttach(query, candidates, source, answer) ==
    LET rows == VisionRows(query, candidates, source, answer).valid
        ids == {candidates[i].id : i \in 1..Len(candidates)}
        known == SelectSeq(rows, LAMBDA r : r.id \in ids)
    IN [i \in 1..Len(known) |->
          [LastWithId(candidates, known[i].id) EXCEPT
              !.validator_score = LastScore(known, known[i].id)]]

-----------------------------------------------------------------------------
(* KnowledgePlannerAgent._enforce_gender and the footwear filter           *)

\* text.strip()
RECURSIVE Strip(_)
Strip(text) ==
    IF text = <<>> THEN <<>>
    ELSE IF Head(text) = " " THEN Strip(Tail(text))
    ELSE IF text[Len(text)] = " " THEN Strip(SubSeq(text, 1, Len(text) - 1))
    ELSE text

\* text.replace(old, new)
RECURSIVE Replace(_, _, _)
Replace(text, old, new) ==
    IF Len(text) < Len(old) THEN text
    ELSE IF SubSeq(text, 1, Len(old)) = old
    THEN new \o Replace(Drop(text, Len(old)), old, new)
    ELSE <<Head(text)>> \o Replace(Tail(text), old, new)

\* One product query through the loop body of _enforce_gender, g in {men, women}.
EnforceOne(q, g) ==
    LET text == Strip(q)
        lower == Lower(text)
        target_prefix == GenderText(g) \o <<"'", "s">>
        other_token == IF g = "men" THEN W_women ELSE W_men
    IN IF Contains(lower, GenderText(g)) THEN text
       ELSE IF Contains(lower, other_token)
       THEN Replace(lower, other_token, target_prefix)
       ELSE target_prefix \o <<" ">> \o text

_enforce_gender(product_queries, gender) ==
    IF gender \notin {"men", "women"} THEN product_queries
    ELSE [i \in 1..Len(product_queries) |-> EnforceOne(product_queries[i], gender)]

W_shoe == <<"s", "h", "o", "e">>
W_sneaker == <<"s", "n", "e", "a", "k", "e", "r">>
W_boot == <<"b", "o", "o", "t">>
W_sandal == <<"s", "a", "n", "d", "a", "l">>
W_footwear == <<"f", "o", "o", "t", "w", "e", "a", "r">>
W_slipper == <<"s", "l", "i", "p", "p", "e", "r">>
W_heel == <<"h", "e", "e", "l">>
W_flat == <<"f", "l", "a", "t">>

forbidden ==
    {W_shoe, W_sneaker, W_boot, W_sandal, W_footwear, W_slipper, W_heel, W_flat}

\* A dispatch that neither filters nor caps.
AllQueries(product_queries) == product_queries

\* The queries MultiQueryRetrieveNode dispatches: footwear dropped, then [:4].
DispatchedQueries(product_queries) ==
    Take(SelectSeq(product_queries,
                   LAMBDA q : ~\E bad \in forbidden : Contains(Lower(q), bad)),
         MaxSubQueries)

-----------------------------------------------------------------------------
(* Inputs of the conversation model                                        *)

\* History lengths at which the two specifications stop accepting turns.
MaxHistory == 3
MaxHistoryLong == 11

M_empty == <<>>
M_kurta == <<"k", "u", "r", "t", "a">>
M_Menswear == <<"M", "e", "n", "s", "w", "e", "a", "r">>
M_Womenswear == <<"W", "o", "m", "e", "n", "s", "w", "e", "a", "r">>

\* ParseNode escalates below 0.55; run_once nudges below 0.45.
EscalationThreshold == 55
NudgeThreshold == 45

ChitKinds ==
    {<<"chitchat", "greeting">>, <<"capabilities", "capabilities_overview">>,
     <<"chitchat", "user_info">>, <<"chitchat", "acknowledgment">>,
     <<"trending", "trending">>, <<"chitchat", "blocked">>,
     <<"chitchat", "out_of_scope">>}

\* What the intent classifier may answer for a message: the fields run_once and
\* the nodes read.  in is the record of input sets of the specification.
ParserAnswers(message, in) ==
    LET base == [NoQuery EXCEPT !.is_set = TRUE, !.raw_query = message] IN
    {[base EXCEPT !.query_type = k[1], !.intent = k[2]] : k \in in.chit}
    \cup {[base EXCEPT !.query_type = "broad", !.gender = g, !.destination = d] :
             g \in in.genders, d \in in.destinations}
    \cup {[base EXCEPT !.query_type = "specific", !.gender = g,
                       !.needs_clarification = n, !.disambiguation = a] :
             g \in in.genders, n \in in.needs_clarification, a \in in.ambiguities}

Q_tops == <<"t", "o", "p", "s">>
Q_shoes == <<"s", "h", "o", "e", "s">>
Q_pants == <<"p", "a", "n", "t", "s">>

\* The planner's answer: raised (the call or json.loads raises) or its
\* product_queries.
PlannerRaises == [raised |-> TRUE, product_queries |-> <<>>]
PlannerEmpty == [raised |-> FALSE, product_queries |-> <<>>]
PlannerThree == [raised |-> FALSE, product_queries |-> <<Q_tops, Q_shoes, Q_pants>>]

\* The clarifier's answer: raised, or [needs_clarification, options].
CLAR_OPTIONS == <<"straight", "slim">>
ClarifierRaises == [raised |-> TRUE, needs_clarification |-> FALSE, options |-> <<>>]
ClarifierClear == [raised |-> FALSE, needs_clarification |-> FALSE, options |-> <<>>]
ClarifierAsks == [raised |-> FALSE, needs_clarification |-> TRUE, options |-> CLAR_OPTIONS]
ClarifierAsksNothing == [raised |-> FALSE, needs_clarification |-> TRUE, options |-> <<>>]

A1 == Product("a1", "u/a1", "acme", "qdrant", 3, TRUE, TRUE)
B1 == Product("b1", "u/b1", "bolt", "qdrant", 2, FALSE, TRUE)

\* What the index answers to a sub-query of a broad turn: the tops query
\* finds a1, the other queries find a1 and b1.
Q_kurtas == <<"k", "u", "r", "t", "a", "s">>
Q_jeans == <<"j", "e", "a", "n", "s">>
Q_dress == <<"d", "r", "e", "s", "s">>
Q_Sandals == <<"S", "a", "n", "d", "a", "l", "s">>

\* Forty kurtas of one brand, each more relevant than a1 and b1: a full page
\* of the per-sub-query search (top_k = 40).
KurtaIds ==
    <<"k01", "k02", "k03", "k04", "k05", "k06", "k07", "k08", "k09", "k10",
      "k11", "k12", "k13", "k14", "k15", "k16", "k17", "k18", "k19", "k20",
      "k21", "k22", "k23", "k24", "k25", "k26", "k27", "k28", "k29", "k30",
      "k31", "k32", "k33", "k34", "k35", "k36", "k37", "k38", "k39", "k40">>
KurtaItems ==
    [i \in 1..Len(KurtaIds) |-> Product(KurtaIds[i], "u/k", "kora", "qdrant", 5, TRUE, TRUE)]

SubQueryAnswer(q) ==
    IF Contains(q, Q_kurtas) THEN KurtaItems
    ELSE IF Contains(q, Q_tops) THEN <<A1>> ELSE <<A1, B1>>

\* The match oracle's answer for the candidates it is shown: "raised", or
\* every candidate accepted with score 0.95 ("accept"), or every candidate
\* rejected ("reject").
OracleAcceptScore == 95
VisionAnswer(candidates, kind) ==
    LET shown == Take(SelectSeq(candidates, LAMBDA c : c.has_image), VisionLimit)
        rows == [i \in 1..Len(shown) |-> [id |-> shown[i].id, score |-> OracleAcceptScore]]
    IN [raised |-> kind = "raised",
        valid |-> IF kind = "accept" THEN rows ELSE <<>>,
        invalid |-> IF kind = "reject" THEN rows ELSE <<>>]

\* The outfit builder's answer: raised or a list of outfits.
OutfitRaises == [raised |-> TRUE, outfits |-> <<>>]
OutfitNone == [raised |-> FALSE, outfits |-> <<>>]
OutfitOne == [raised |-> FALSE, outfits |-> <<"outfit-1">>]

\* What web search may return (ids web-0, web-1, ...).
WebAnswers == {<<>>, <<Product("web-0", "u/w0", NONE, "web", 0, TRUE, TRUE)>>}

\* getattr(Config, "MIN_VALID_FOR_WEB", 0): Config declares no such attribute.
MIN_VALID_FOR_WEB == 0

\* The inputs of Spec: a rich choice of answers over a few turns.
Inputs ==
    [max_history |-> MaxHistory,
     messages |-> {M_empty, M_kurta, M_Womenswear},
     events |-> {NONE, "clarification_choice", "disambiguation_choice"},
     confidences |-> {40, 50, 90},
     chit |-> ChitKinds,
     genders |-> {NONE, "women"},
     destinations |-> {NONE},
     needs_clarification |-> BOOLEAN,
     ambiguities |-> {<<>>, <<"blue-green">>},
     profile_updates |-> {"women"},
     db_ok |-> BOOLEAN,
     planner |-> {PlannerRaises, PlannerThree},
     clarifier |-> {ClarifierRaises, ClarifierClear, ClarifierAsks, ClarifierAsksNothing},
     index |-> {<<A1, B1>>},
     index_ok |-> {TRUE},
     oracle_ok |-> {TRUE},
     vision |-> {"accept"},
     min_valid |-> {MIN_VALID_FOR_WEB},
     outfits |-> {OutfitOne}]

\* gender_map of extract_and_save_from_message, scanned in insertion order.
ExtractedGender(message) ==
    LET lowered == Lower(message) IN
    IF \E w \in {W_men, W_man, W_menswear, W_male} : Contains(lowered, w)
    THEN "men"
    ELSE IF \E w \in {W_women, W_woman, W_womenswear, W_female, W_ladies} :
              Contains(lowered, w)
    THEN "women"
    ELSE NONE

\* Bookkeeping of one fan-out: the dispatched queries, the futures still
\* running, all_results, what each future returned, and the list handed to the
\* reranker.
NoFanout ==
    [queries |-> <<>>, pending |-> {}, all_results |-> <<>>, returned |-> <<>>,
     rerank_input |-> <<>>]

\* A call of an external service in the current turn: the service, the
\* gender the query carried, and whether the service failed.
Call(op, gender) == [op |-> op, gender |-> gender, failed |-> FALSE]

CallOf(op, gender, ok) == [Call(op, gender) EXCEPT !.failed = ~ok]

\* The parser's call, with the confidence it answered.
ParseCall(confidence) ==
    [op |-> "parse", gender |-> NONE, failed |-> FALSE, confidence |-> confidence]

-----------------------------------------------------------------------------
(* A turn: the chat endpoint and run_once, line by line                    *)

-----------------------------------------------------------------------------
\* The load of the trends text at the start of run_once, for several turns
\* on one event loop.
MaxTurns == 3

Turns == 1..MaxTurns

\* "trends" not in _GLOBAL_TRENDS_CACHE.
MISSING == "missing"

\* What get_fashion_trends_text returns: the summary of the fetched results
\* or _fallback_trends().
TrendTexts == {"summary", "fallback"}

NewTurn == [at |-> "new", fetched |-> FALSE, trends_context |-> NONE]

TrendsUnloaded ==
    /\ _GLOBAL_TRENDS_CACHE = MISSING
    /\ trend_turns = [t \in Turns |-> NewTurn]

\* The turn reaches the cache test.  With the key present it reads the cache.
\* Otherwise it calls get_fashion_trends_text, which either returns without
\* suspending (disk cache hit, no API key) or suspends at asyncio.to_thread and
\* lets other turns run.
LoadTrends(t, suspends, text) ==
    /\ trend_turns[t].at = "new"
    /\ IF _GLOBAL_TRENDS_CACHE # MISSING
       THEN /\ trend_turns' = [trend_turns EXCEPT ![t] =
                   [@ EXCEPT !.at = "done",
                             !.trends_context = _GLOBAL_TRENDS_CACHE]]
            /\ UNCHANGED _GLOBAL_TRENDS_CACHE
       ELSE IF suspends
       THEN /\ trend_turns' = [trend_turns EXCEPT ![t] =
                   [@ EXCEPT !.at = "fetching", !.fetched = TRUE]]
            /\ UNCHANGED _GLOBAL_TRENDS_CACHE
       ELSE /\ _GLOBAL_TRENDS_CACHE' = text
            /\ trend_turns' = [trend_turns EXCEPT ![t] =
                   [at |-> "done", fetched |-> TRUE, trends_context |-> text]]
    /\ UNCHANGED <<state, pc, calls, outcome, profile_db, mq>>

\* The awaited fetch of a suspended turn returns: the turn stores the text
\* and reads it back.
TrendsFetched(t, text) ==
    /\ trend_turns[t].at = "fetching"
    /\ _GLOBAL_TRENDS_CACHE' = text
    /\ trend_turns' = [trend_turns EXCEPT ![t] =
           [@ EXCEPT !.at = "done", !.trends_context = text]]
    /\ UNCHANGED <<state, pc, calls, outcome, profile_db, mq>>

Init ==
    /\ state = NewState(M_empty)
    /\ pc = "idle"
    /\ calls = <<>>
    /\ outcome = NONE
    /\ profile_db = NONE
    /\ mq = NoFanout
    /\ TrendsUnloaded

\* run_once returns the state: the turn is answered.
Return(st) ==
    /\ state' = st
    /\ pc' = "idle"
    /\ outcome' = "responded"

\* An exception leaves run_once: the session object keeps what was written.
Raise(st) ==
    /\ state' = st
    /\ pc' = "idle"
    /\ outcome' = "error"

Continue(st, next) ==
    /\ state' = st
    /\ pc' = next
    /\ UNCHANGED outcome

\* _get_state on the thread's session, then _apply_ui_events: only
\* clarification_choice is handled.
_apply_ui_events(st, event) ==
    IF event = "clarification_choice"
    THEN [st EXCEPT !.clarification_choice = "card"]
    ELSE st

\* run_once lines 143-155: the profile is loaded once per session; get_profile
\* answers {} when the store cannot be read.
LoadProfile(st, db_ok) ==
    IF st.profile_loaded THEN st
    ELSE [st EXCEPT !.user_profile = [gender |-> IF db_ok THEN profile_db ELSE NONE],
                    !.profile_loaded = TRUE]

\* A re-ask that forgets the prompt.
DropPrompt(st) == [st EXCEPT !.pending_gender_prompt = FALSE]

\* run_once lines 189-200: pending_gender_prompt is set and the message names
\* no gender.
ReaskGender(st) ==
    UINode([st EXCEPT !.mode = "gender_prompt",
                      !.stylist_response = "gender_reask",
                      !.clarification_question = "Shopping for menswear or womenswear?",
                      !.clarification_options = GENDER_OPTIONS])

\* POST /api/chat: _get_state, _apply_ui_events, then run_once up to its call
\* of the parser (lines 143-200).
ChatRequest(message, event, db_ok, max_history) ==
    /\ UNCHANGED trends_vars
    /\ pc = "idle"
    /\ Len(state.conversation_history) < max_history
    /\ calls' = <<>>
    /\ LET st0 == _apply_ui_events([state EXCEPT !.user_message = message], event)
           st1 == LoadProfile(st0, db_ok)
       IN IF Len(st1.conversation_history) = 0 /\ IsBlank(st1.user_message)
          THEN /\ Return(UINode(StylistNode([st1 EXCEPT !.mode = "greeting"])))
               /\ UNCHANGED profile_db
          ELSE LET st2 == [st1 EXCEPT !.conversation_history = Append(@, "user")]
                   gender_from_reply == _extract_gender_from_message(st2.user_message)
               IN IF st2.pending_gender_prompt
                  THEN IF gender_from_reply # NONE
                       THEN /\ state' = _persist_gender(st2, gender_from_reply)
                            /\ pc' = "parse"
                            /\ outcome' = NONE
                            /\ profile_db' = SavedProfile(st2, gender_from_reply, profile_db)
                       ELSE /\ Return(ReaskGender(st2))
                            /\ UNCHANGED profile_db
                  ELSE /\ state' = st2
                       /\ pc' = "parse"
                       /\ outcome' = NONE
                       /\ UNCHANGED profile_db
    /\ UNCHANGED mq

\* POST /api/profile/update with a gender.
UpdateProfile(gender) ==
    /\ UNCHANGED trends_vars
    /\ pc = "idle"
    /\ profile_db' = gender
    /\ UNCHANGED <<state, pc, calls, outcome, mq>>

\* ParseNode.__call__ after the parser has answered with confidence >= 0.55.
ParseNode(st, fashion_query, confidence) ==
    [st EXCEPT !.intent_confidence = confidence,
               !.fashion_query = fashion_query,
               !.ambiguities = fashion_query.disambiguation]

\* The user_info branch (lines 242-291): extract_and_save_from_message, then
\* one of three fixed replies.
UserInfoProfile(message, db_ok) ==
    LET stored == IF db_ok THEN profile_db ELSE NONE
        found == ExtractedGender(message)
    IN IF found # NONE THEN found ELSE stored

UserInfo(st, db_ok) ==
    LET gender == UserInfoProfile(st.user_message, db_ok) IN
    UINode([st EXCEPT !.user_profile = [gender |-> gender],
                      !.stylist_response =
                          IF gender # NONE THEN "user_info_gender" ELSE "user_info_thanks"])

\* The branches of run_once that answer without retrieval (lines 208-312).
IsChat(fq, confidence) ==
    \/ confidence < NudgeThreshold
    \/ fq.intent \in {"blocked", "out_of_scope", "acknowledgment", "user_info"}
    \/ fq.query_type = "chitchat" /\ fq.intent = "greeting"
    \/ fq.query_type \in {"capabilities", "trending"}

Chat(st, db_ok) ==
    LET fq == st.fashion_query
        Say(mode) == UINode(StylistNode([st EXCEPT !.mode = mode]))
    IN IF st.intent_confidence < NudgeThreshold THEN Say("nudge")
       ELSE IF fq.intent = "blocked"
       THEN UINode([st EXCEPT !.stylist_response = "blocked"])
       ELSE IF fq.intent = "out_of_scope" THEN Say("nudge")
       ELSE IF fq.intent = "acknowledgment" THEN Say("nudge")
       ELSE IF fq.intent = "user_info" THEN UserInfo(st, db_ok)
       ELSE IF fq.query_type = "chitchat" /\ fq.intent = "greeting" THEN Say("greeting")
       ELSE IF fq.query_type = "capabilities" THEN Say("capabilities_overview")
       ELSE Say("trending")

\* run_once lines 203-339: parse_node and the routing on its answer.
Parse(fashion_query, confidence, db_ok) ==
    /\ UNCHANGED trends_vars
    /\ pc = "parse"
    /\ calls' = Append(calls, ParseCall(confidence))
    /\ IF confidence < EscalationThreshold
       THEN \* Config.ORCHESTRATOR_MODEL does not exist: AttributeError
            /\ Raise(state)
            /\ UNCHANGED profile_db
       ELSE LET st == ParseNode(state, fashion_query, confidence) IN
            IF IsChat(fashion_query, confidence)
            THEN /\ Return(Chat(st, db_ok))
                 /\ profile_db' =
                      IF confidence >= NudgeThreshold /\ fashion_query.intent = "user_info"
                         /\ ExtractedGender(st.user_message) # NONE
                      THEN ExtractedGender(st.user_message)
                      ELSE profile_db
            ELSE /\ Continue(st, IF fashion_query.query_type = "broad"
                                 THEN "plan" ELSE "disambiguate")
                 /\ UNCHANGED profile_db
    /\ UNCHANGED mq

\* KnowledgePlannerNode, _ensure_gender and the destination branch
\* (lines 317-329).  WeatherNode runs when the plan carries a weather query,
\* which the planner agent adds whenever the query has a destination.
Plan(answer) ==
    /\ UNCHANGED trends_vars
    /\ pc = "plan"
    /\ IF answer.raised
       THEN /\ Raise(state)
            /\ calls' = Append(calls, CallOf("planner", NONE, FALSE))
            /\ UNCHANGED profile_db
       ELSE LET fq == state.fashion_query
                plan == [product_queries |-> _enforce_gender(answer.product_queries, fq.gender),
                         weather_search_query |-> fq.destination # NONE]
                st1 == [state EXCEPT !.planner_plan = plan]
                gate == _ensure_gender(st1)
                weather == gate.state.fashion_query.destination # NONE
                              /\ plan.weather_search_query
            IN IF ~gate.proceed
               THEN /\ Return(gate.state)
                    /\ calls' = Append(calls, Call("planner", NONE))
                    /\ UNCHANGED profile_db
               ELSE /\ Continue([gate.state EXCEPT !.weather_context = @ \/ weather],
                                "multi_query")
                    /\ calls' = IF weather
                                THEN calls \o <<Call("planner", NONE), Call("weather", NONE)>>
                                ELSE Append(calls, Call("planner", NONE))
                    /\ profile_db' = SavedProfile(st1, ResolvedGender(st1), profile_db)
    /\ UNCHANGED mq

\* MultiQueryRetrieveNode.__call__ lines 28-53: nothing to do without product
\* queries; otherwise one future per dispatched query is submitted.
MQDispatch ==
    /\ UNCHANGED trends_vars
    /\ pc = "multi_query"
    /\ IF state.planner_plan.product_queries = <<>>
       THEN /\ pc' = "outfits"
            /\ UNCHANGED mq
       ELSE LET queries == DispatchedQueries(state.planner_plan.product_queries) IN
            /\ pc' = "mq_wait"
            /\ mq' = [queries |-> queries,
                      pending |-> 1..Len(queries),
                      all_results |-> <<>>,
                      returned |-> [i \in 1..Len(queries) |-> <<>>],
                      rerank_input |-> <<>>]
    /\ UNCHANGED <<state, calls, outcome, profile_db>>

\* _search_single for one query (lines 94-104): the sub-query is the fashion
\* query with item_type and raw_query replaced; every result is tagged.
SearchSingle(query_text, points, index_ok) ==
    LET results == CatalogSearch(points, MultiTopK, index_ok) IN
    [i \in 1..Len(results) |-> [results[i] EXCEPT !.origin_query = query_text]]

\* One iteration of the as_completed loop (lines 56-77): future i is the next
\* to complete and its results extend all_results.
MQComplete(i, index_ok) ==
    /\ UNCHANGED trends_vars
    /\ pc = "mq_wait"
    /\ i \in mq.pending
    /\ LET results == SearchSingle(mq.queries[i], SubQueryAnswer(mq.queries[i]), index_ok) IN
       mq' = [mq EXCEPT !.pending = @ \ {i},
                        !.all_results = @ \o results,
                        !.returned[i] = results]
    /\ calls' = Append(calls, CallOf("catalog_search", state.fashion_query.gender, index_ok))
    /\ UNCHANGED <<state, pc, outcome, profile_db>>

\* Lines 79-100 once every future has completed: dedupe, the single rerank
\* pass, balancing, and the two output lists.
MQFinish(oracle_ok) ==
    /\ UNCHANGED trends_vars
    /\ pc = "mq_wait"
    /\ mq.pending = {}
    /\ LET pooled == PoolResults(mq.all_results, mq.queries, oracle_ok) IN
       state' = [state EXCEPT !.pooled_valid_products = pooled,
                              !.final_products = Take(pooled, FinalCap)]
    /\ calls' = IF _dedupe(mq.all_results) = <<>> THEN calls
                ELSE Append(calls, CallOf("rerank", NONE, oracle_ok))
    /\ mq' = [mq EXCEPT !.rerank_input = _dedupe(mq.all_results)]
    /\ pc' = "outfits"
    /\ UNCHANGED <<outcome, profile_db>>

\* OutfitBuilderNode (it returns at once without pooled products), then
\* stylist_node and ui_node (lines 333-336).
OutfitBuilderNode(st, outfits) ==
    IF st.pooled_valid_products = <<>> THEN st ELSE [st EXCEPT !.outfits = outfits]

BuildOutfits(answer) ==
    /\ UNCHANGED trends_vars
    /\ pc = "outfits"
    /\ IF state.pooled_valid_products # <<>> /\ answer.raised
       THEN Raise(state)
       ELSE Return(UINode(StylistNode(OutfitBuilderNode(state, answer.outfits))))
    /\ calls' = IF state.pooled_valid_products = <<>> THEN calls
                ELSE Append(calls, Call("outfit_builder", NONE))
    /\ UNCHANGED <<profile_db, mq>>

\* DisambiguateNode and the halt that follows it (lines 340-345).
DisambiguateNode(st) ==
    IF st.ambiguities = <<>> \/ st.chosen_disambiguation # NONE THEN st
    ELSE [st EXCEPT !.disambiguation_cards = st.ambiguities,
                    !.ui_event = "disambiguation"]

Disambiguate ==
    /\ UNCHANGED trends_vars
    /\ pc = "disambiguate"
    /\ LET st == DisambiguateNode(state) IN
       IF st.ui_event = "disambiguation" /\ st.chosen_disambiguation = NONE
       THEN Return(st)
       ELSE Continue(st, IF state.fashion_query.needs_clarification
                         THEN "clarify" ELSE "gender")
    /\ UNCHANGED <<calls, profile_db, mq>>

\* ClarifierNode.__call__
ClarifierSkips(st) ==
    \/ ~st.fashion_query.is_set
    \/ st.fashion_query.query_type # "specific"
    \/ st.clarification_choice # NONE
         /\ st.clarification_source_query = st.fashion_query.raw_query

ClarifierNode(st, answer) ==
    IF ClarifierSkips(st) \/ ~answer.needs_clarification THEN st
    ELSE [st EXCEPT !.clarification_options = answer.options,
                    !.clarification_question = "Which one did you mean?",
                    !.clarification_source_query = st.fashion_query.raw_query,
                    !.ui_event = "clarification_cards"]

\* Lines 346-350.
Clarify(answer) ==
    /\ UNCHANGED trends_vars
    /\ pc = "clarify"
    /\ IF ~ClarifierSkips(state) /\ answer.raised
       THEN Raise(state)
       ELSE LET st == ClarifierNode(state, answer) IN
            IF Truthy(st.clarification_options) /\ st.clarification_choice = NONE
            THEN Return(UINode(StylistNode(st)))
            ELSE Continue(st, "gender")
    /\ calls' = IF ClarifierSkips(state) THEN calls
                ELSE Append(calls, Call("clarifier", NONE))
    /\ UNCHANGED <<profile_db, mq>>

\* Lines 352-354.
EnsureGender ==
    /\ UNCHANGED trends_vars
    /\ pc = "gender"
    /\ LET gate == _ensure_gender(state) IN
       /\ IF gate.proceed THEN Continue(gate.state, "catalog") ELSE Return(gate.state)
       /\ profile_db' = SavedProfile(state, ResolvedGender(state), profile_db)
    /\ UNCHANGED <<calls, mq>>

\* top_k of the single-query search and of its rerank.
CatalogTopK == 40
CatalogRerankTopK == 12

\* Limit of the web search.
WebLimit == 25

\* CatalogRetrieveNode.__call__: search, then rerank.
CatalogRetrieve(points, index_ok, oracle_ok) ==
    /\ UNCHANGED trends_vars
    /\ pc = "catalog"
    /\ IF ~state.fashion_query.is_set
       THEN /\ UNCHANGED state
            /\ UNCHANGED calls
       ELSE LET raw == CatalogSearch(points, CatalogTopK, index_ok)
                filtered == Rerank(raw, CatalogRerankTopK, oracle_ok)
            IN /\ state' = [state EXCEPT !.qdrant_candidates = raw,
                                         !.qdrant_filtered = filtered]
               /\ calls' = calls \o
                    <<CallOf("catalog_search", state.fashion_query.gender, index_ok)>> \o
                    (IF raw = <<>> THEN <<>> ELSE <<CallOf("rerank", NONE, oracle_ok)>>)
    /\ pc' = "validate"
    /\ UNCHANGED <<outcome, profile_db, mq>>

\* VisionValidateNode.__call__: without candidates the node returns and
\* qdrant_valid keeps its previous value.
VisionCandidates(st) ==
    IF st.qdrant_filtered # <<>> THEN st.qdrant_filtered ELSE st.qdrant_candidates

VisionValidateNode(st, answer) ==
    IF VisionCandidates(st) = <<>> THEN st
    ELSE [st EXCEPT !.qdrant_valid =
             ValidateAndAttach(st.fashion_query, VisionCandidates(st), "qdrant", answer)]

VisionValidate(kind) ==
    /\ UNCHANGED trends_vars
    /\ pc = "validate"
    /\ state' = VisionValidateNode(state, VisionAnswer(VisionCandidates(state), kind))
    /\ calls' = IF \E i \in 1..Len(VisionCandidates(state)) :
                      VisionCandidates(state)[i].has_image
                THEN Append(calls, CallOf("vision", NONE, kind # "raised")) ELSE calls
    /\ pc' = "merge"
    /\ UNCHANGED <<outcome, profile_db, mq>>

\* WebRetrieveNode and WebVisionValidateNode (lines 362-363).
WebFallback(st, web, answer) ==
    LET st1 == [st EXCEPT !.web_candidates = Take(web, WebLimit)] IN
    IF st1.web_candidates = <<>> THEN st1
    ELSE [st1 EXCEPT !.web_valid =
             ValidateAndAttach(st1.fashion_query, st1.web_candidates, "web", answer)]

\* Lines 376-378.
HistoryWindow == 10

TrimHistory(history) ==
    IF Len(history) > HistoryWindow
    THEN SubSeq(history, Len(history) - HistoryWindow + 1, Len(history))
    ELSE history

\* The end of the specific path (lines 367-380) on the state after the web gate.
Respond(st) ==
    LET st1 == UINode(StylistNode([MergeNode(st) EXCEPT !.mode = "product"]))
        history == IF st1.stylist_response # NONE
                   THEN Append(st1.conversation_history, "assistant")
                   ELSE st1.conversation_history
    IN [st1 EXCEPT !.conversation_history = TrimHistory(history)]

\* A gate that always opens.
AlwaysWeb(st, min_valid) == TRUE

\* Lines 359-360: len(state.qdrant_valid) < min_valid.
NeedsWeb(st, min_valid) == Len(st.qdrant_valid) < min_valid

\* Lines 359-380: the web gate, merge, reply, history. The web validator is
\* called only on a non-empty web_candidates list.
Finish(kind, min_valid) ==
    /\ UNCHANGED trends_vars
    /\ pc = "merge"
    /\ IF NeedsWeb(state, min_valid)
       THEN \E web \in WebAnswers :
              /\ Return(Respond(WebFallback(state, web, VisionAnswer(web, kind))))
              /\ calls' = calls \o <<Call("web_search", NONE)>> \o
                    (IF web = <<>> THEN <<>>
                     ELSE <<CallOf("web_vision", NONE, kind # "raised")>>) \o
                    <<Call("merge", NONE)>>
       ELSE /\ Return(Respond(state))
            /\ calls' = Append(calls, Call("merge", NONE))
    /\ UNCHANGED <<profile_db, mq>>

\* Every step of the service, its inputs drawn from the sets of in.
NextOf(in) ==
    \/ \E message \in in.messages, event \in in.events :
          \* the profile store is read on the first turn of a session only
          \E db_ok \in (IF state.profile_loaded THEN {TRUE} ELSE in.db_ok) :
             ChatRequest(message, event, db_ok, in.max_history)
    \/ \E gender \in in.profile_updates : UpdateProfile(gender)
    \/ \E confidence \in in.confidences :
          \* below the escalation threshold ParseNode raises before it reads
          \* anything of the answer but its confidence
          \E fq \in (IF confidence < EscalationThreshold
                     THEN {CHOOSE a \in ParserAnswers(state.user_message, in) : TRUE}
                     ELSE ParserAnswers(state.user_message, in)) :
             \* the profile store is read on the user_info branch only
             \E db_ok \in (IF fq.intent = "user_info" /\ confidence >= EscalationThreshold
                           THEN in.db_ok ELSE {TRUE}) :
                Parse(fq, confidence, db_ok)
    \/ \E answer \in in.planner : Plan(answer)
    \/ MQDispatch
    \/ \E i \in 1..MaxSubQueries, index_ok \in in.index_ok : MQComplete(i, index_ok)
    \/ \E oracle_ok \in in.oracle_ok : MQFinish(oracle_ok)
    \/ \E answer \in in.outfits : BuildOutfits(answer)
    \/ Disambiguate
    \/ \E answer \in in.clarifier : Clarify(answer)
    \/ EnsureGender
    \/ \E points \in in.index, index_ok \in in.index_ok, oracle_ok \in in.oracle_ok :
          CatalogRetrieve(points, index_ok, oracle_ok)
    \/ \E kind \in in.vision : VisionValidate(kind)
    \/ \E kind \in in.vision, min_valid \in in.min_valid : Finish(kind, min_valid)

Next == NextOf(Inputs)

Spec == Init /\ [][Next]_vars

\* The inputs of SpecLong: few answers, many turns.
LongInputs ==
    [max_history |-> MaxHistoryLong,
     messages |-> {M_kurta, M_Womenswear},
     events |-> {NONE},
     confidences |-> {90},
     chit |-> {<<"chitchat", "acknowledgment">>, <<"chitchat", "blocked">>,
               <<"chitchat", "user_info">>, <<"chitchat", "greeting">>},
     genders |-> {NONE},
     destinations |-> {NONE},
     needs_clarification |-> {TRUE},
     ambiguities |-> {<<>>},
     profile_updates |-> {"women"},
     db_ok |-> {TRUE},
     planner |-> {PlannerThree},
     clarifier |-> {ClarifierClear},
     index |-> {<<A1, B1>>},
     index_ok |-> {TRUE},
     oracle_ok |-> {TRUE},
     vision |-> {"accept"},
     min_valid |-> {MIN_VALID_FOR_WEB},
     outfits |-> {OutfitOne}]

NextLong == NextOf(LongInputs)

SpecLong == Init /\ [][NextLong]_vars

\* The inputs of SpecFail: the index, the ranking oracle and the match oracle
\* may each fail; every other service answers.
FailInputs ==
    [LongInputs EXCEPT !.max_history = MaxHistory,
                       !.chit = {<<"chitchat", "acknowledgment">>},
                       !.genders = {"women"},
                       !.index_ok = BOOLEAN,
                       !.oracle_ok = BOOLEAN,
                       !.vision = {"accept", "raised"}]

NextFail == NextOf(FailInputs)

SpecFail == Init /\ [][NextFail]_vars

\* The inputs of SpecEmpty: the index may match nothing and the planner may
\* plan nothing.
EmptyInputs ==
    [LongInputs EXCEPT !.max_history = MaxHistory,
                       !.chit = {<<"chitchat", "acknowledgment">>},
                       !.genders = {"women"},
                       !.index = {<<>>, <<A1, B1>>},
                       !.planner = {PlannerEmpty, PlannerThree}]

NextEmpty == NextOf(EmptyInputs)

SpecEmpty == Init /\ [][NextEmpty]_vars

NextTrends ==
    \E t \in Turns, text \in TrendTexts :
        \/ \E suspends \in BOOLEAN : LoadTrends(t, suspends, text)
        \/ TrendsFetched(t, text)

SpecTrends == Init /\ [][NextTrends]_vars

\* SpecPrompt starts where a specific turn has just halted at the gender
\* prompt, and runs the turn that answers it.
PromptMaxHistory == 2

PromptInputs ==
    [Inputs EXCEPT !.max_history = PromptMaxHistory,
                   !.messages = {M_kurta, M_Menswear, M_Womenswear},
                   !.events = {NONE},
                   !.confidences = {90},
                   !.index = {<<>>, <<A1, B1>>}]

PromptedState ==
    LET asked == [NoQuery EXCEPT !.is_set = TRUE, !.raw_query = M_kurta,
                                 !.query_type = "specific"]
        st == [NewState(M_kurta) EXCEPT !.conversation_history = <<"user">>,
                                        !.profile_loaded = TRUE]
    IN _ensure_gender(ParseNode(st, asked, 90)).state

InitPrompt ==
    /\ state = PromptedState
    /\ pc = "idle"
    /\ calls = <<ParseCall(90)>>
    /\ outcome = "responded"
    /\ profile_db = NONE
    /\ mq = NoFanout
    /\ TrendsUnloaded

NextPrompt == NextOf(PromptInputs)

SpecPrompt == InitPrompt /\ [][NextPrompt]_vars

\* The inputs of SpecWeb: Config.MIN_VALID_FOR_WEB set to WebMinValid, the
\* match oracle accepting or rejecting what it is shown.
WebMinValid == 1

WebInputs ==
    [LongInputs EXCEPT !.max_history = MaxHistory,
                       !.chit = {<<"chitchat", "acknowledgment">>},
                       !.genders = {"women"},
                       !.index = {<<>>, <<A1>>, <<A1, B1>>},
                       !.vision = {"accept", "reject", "raised"},
                       !.min_valid = {WebMinValid}]

NextWeb == NextOf(WebInputs)

SpecWeb == Init /\ [][NextWeb]_vars

-----------------------------------------------------------------------------
(* MultiQueryRetrieveNode on its own: SpecFanout draws the planner's        *)
(* product queries and runs the fan-out of a broad turn.                    *)

\* Longest plan SpecFanout draws from FanoutQueries.
FanoutMaxLen == 2

FanoutQueries == {Q_tops, Q_pants, Q_shoes, Q_Sandals, Q_kurtas}

\* Nine planned queries, six of them not footwear.
NinePlan ==
    <<Q_tops, Q_shoes, Q_pants, Q_Sandals, Q_jeans, Q_dress, Q_kurtas, Q_shoes, Q_tops>>

FanoutPlans ==
    UNION {[1..n -> FanoutQueries] : n \in 0..FanoutMaxLen} \cup {NinePlan}

\* The state run_once hands to multi_query_retrieve_node (line 332): a
\* broad query with its gender resolved and the planner's plan.
InitFanout ==
    /\ \E plan \in FanoutPlans :
          state = [NewState(M_kurta) EXCEPT
                     !.conversation_history = <<"user">>,
                     !.profile_loaded = TRUE,
                     !.user_profile = [gender |-> "women"],
                     !.fashion_query = [NoQuery EXCEPT !.is_set = TRUE,
                                                       !.query_type = "broad",
                                                       !.gender = "women",
                                                       !.raw_query = M_kurta],
                     !.intent_confidence = 90,
                     !.planner_plan = [product_queries |-> plan,
                                       weather_search_query |-> FALSE]]
    /\ pc = "multi_query"
    /\ calls = <<>>
    /\ outcome = NONE
    /\ profile_db = NONE
    /\ mq = NoFanout
    /\ TrendsUnloaded

NextFanout ==
    \/ MQDispatch
    \/ \E i \in 1..MaxSubQueries, index_ok \in BOOLEAN : MQComplete(i, index_ok)
    \/ \E oracle_ok \in BOOLEAN : MQFinish(oracle_ok)

SpecFanout == InitFanout /\ [][NextFanout]_vars

-----------------------------------------------------------------------------
(* The retriever's brand cap on its own: SpecBrandPool draws the products   *)
(* left by the junk filter and applies _rebalance_brand_pool once.          *)

\* Longest product list SpecBrandPool draws.
BrandPoolMaxLen == 5

BrandPoolIds == <<"b1", "b2", "b3", "b4", "b5", "b6", "b7">>
BrandPoolBrands == {"acme", "bolt", NONE}

BrandPoolLists ==
    UNION {{[i \in 1..n |-> Product(BrandPoolIds[i], "u", f[i], "qdrant", 0, TRUE, TRUE)] :
               f \in [1..n -> BrandPoolBrands]} : n \in 0..BrandPoolMaxLen}

InitBrandPool ==
    /\ \E products \in BrandPoolLists :
          state = [NewState(M_kurta) EXCEPT !.qdrant_candidates = products]
    /\ pc = "brand_cap"
    /\ calls = <<>>
    /\ outcome = NONE
    /\ profile_db = NONE
    /\ mq = NoFanout
    /\ TrendsUnloaded

\* products = self._rebalance_brand_pool(products); the input stays in
\* state.qdrant_candidates and outcome holds what the pass returned.
BrandPoolStep ==
    /\ UNCHANGED trends_vars
    /\ pc = "brand_cap"
    /\ outcome' = _rebalance_brand_pool(state.qdrant_candidates)
    /\ pc' = "brand_capped"
    /\ UNCHANGED <<state, calls, profile_db, mq>>

NextBrandPool == BrandPoolStep

SpecBrandPool == InitBrandPool /\ [][NextBrandPool]_vars

-----------------------------------------------------------------------------
(* Reranker on its own: SpecRerank draws a batch and reranks it once.       *)

\* Longest batch SpecRerank draws.
RerankMaxLen == 4

RerankIds == <<"c1", "c2", "c3", "c4", "c5">>
RerankBrands == {"acme", "bolt", "cora"}
RerankRels == {1, 2}

\* Batches of distinct candidates: the id is the position, brand and
\* relevance are free.
RerankBatches ==
    UNION {{[i \in 1..n |-> Product(RerankIds[i], "u", f[i][1], "qdrant", f[i][2], TRUE, TRUE)] :
               f \in [1..n -> RerankBrands \X RerankRels]} : n \in 0..RerankMaxLen}

InitRerank ==
    /\ \E batch \in RerankBatches :
          state = [NewState(M_kurta) EXCEPT !.qdrant_candidates = batch]
    /\ pc = "rerank"
    /\ calls = <<>>
    /\ outcome = NONE
    /\ profile_db = NONE
    /\ mq = NoFanout
    /\ TrendsUnloaded

\* self.reranker.rerank(query, raw, top_k=12)
RerankStep(oracle_ok) ==
    /\ UNCHANGED trends_vars
    /\ pc = "rerank"
    /\ state' = [state EXCEPT !.qdrant_filtered =
                                 Rerank(state.qdrant_candidates, CatalogRerankTopK, oracle_ok)]
    /\ pc' = "reranked"
    /\ calls' = Append(calls, CallOf("rerank", NONE, oracle_ok))
    /\ UNCHANGED <<outcome, profile_db, mq>>

NextRerank == \E oracle_ok \in BOOLEAN : RerankStep(oracle_ok)

SpecRerank == InitRerank /\ [][NextRerank]_vars

-----------------------------------------------------------------------------
(* VisionValidator on its own: SpecValidate draws a query, the candidates   *)
(* and the match oracle's answer, and validates once.                       *)

\* Longest candidate list SpecValidate draws.
ValidateMaxLen == 2

ValidateIds == <<"v1", "v2", "v3">>
C_red == <<"r", "e", "d">>
P_stripe == <<"s", "t", "r", "i", "p", "e">>
P_Striped == <<"S", "t", "r", "i", "p", "e", "d">>
P_floral == <<"f", "l", "o", "r", "a", "l">>

\* has_image, title_ok, color, pattern of a candidate
ValidateTraits == BOOLEAN \X BOOLEAN \X {<<>>, <<C_red>>} \X {<<>>, P_Striped}

ValidateCandidates ==
    UNION {{[i \in 1..n |->
               [Product(ValidateIds[i], "u", NONE, "qdrant", 0, f[i][1], f[i][2])
                   EXCEPT !.color = f[i][3], !.pattern = f[i][4]]] :
              f \in [1..n -> ValidateTraits]} : n \in 0..ValidateMaxLen}

ValidateQueries ==
    {[NoQuery EXCEPT !.is_set = TRUE, !.query_type = "specific", !.gender = "women",
                     !.colors = c, !.color_mode = m, !.pattern = p] :
        c \in {<<>>, <<C_red>>}, m \in {NONE, "all_required"},
        p \in {<<>>, P_stripe, P_floral}}

\* The match oracle's answer: it raises, or it returns rows that may omit a
\* shown id, repeat one in both lists, or name an id it was not shown.
OracleRow(id) == [id |-> id, score |-> OracleAcceptScore]
ValidateAnswers ==
    {[raised |-> TRUE, valid |-> <<>>, invalid |-> <<>>]}
    \cup {[raised |-> FALSE, valid |-> v, invalid |-> i] :
             v \in {<<>>, <<OracleRow("v1")>>, <<OracleRow("v1"), OracleRow("v2")>>,
                    <<OracleRow("v1"), OracleRow("zz")>>},
             i \in {<<>>, <<OracleRow("v1")>>, <<OracleRow("v2")>>}}

InitValidate ==
    /\ \E query \in ValidateQueries, candidates \in ValidateCandidates :
          state = [NewState(M_kurta) EXCEPT !.fashion_query = query,
                                            !.qdrant_filtered = candidates]
    /\ pc = "validate"
    /\ calls = <<>>
    /\ outcome = NONE
    /\ profile_db = NONE
    /\ mq = NoFanout
    /\ TrendsUnloaded

\* VisionValidateNode.__call__ with candidates (without any the node returns
\* before it calls the validator); outcome keeps what validate returned.
ValidateStep(answer) ==
    /\ UNCHANGED trends_vars
    /\ pc = "validate"
    /\ VisionCandidates(state) # <<>>
    /\ state' = VisionValidateNode(state, answer)
    /\ outcome' = Validate(state.fashion_query, VisionCandidates(state), "qdrant", answer)
    /\ pc' = "validated"
    /\ calls' = Append(calls, CallOf("vision", NONE, ~answer.raised))
    /\ UNCHANGED <<profile_db, mq>>

NextValidate == \E answer \in ValidateAnswers : ValidateStep(answer)

SpecValidate == InitValidate /\ [][NextValidate]_vars

-----------------------------------------------------------------------------
(* MergeNode on its own: SpecMerge draws the two validated lists and        *)
(* applies the node once.                                                   *)

\* Longest list SpecMerge draws from the small candidate universe.
MergeMaxLen == 2

\* Identifier and URL of the candidates: two with an id, two without.
MergeIdUrls == {<<"p1", "u1">>, <<"p2", "u2">>, <<NONE, "u1">>, <<NONE, "u2">>}
MergeScores == {50, 90}

Validated(id, url, source, score) ==
    [Product(id, url, NONE, source, 0, TRUE, TRUE) EXCEPT !.validator_score = score]

ListsOver(items) == UNION {[1..n -> items] : n \in 0..MergeMaxLen}

CatalogLists ==
    ListsOver({Validated(k[1], k[2], "qdrant", sc) :
                  k \in MergeIdUrls, sc \in MergeScores})

WebLists ==
    ListsOver({Validated(k[1], k[2], "web", sc) :
                  k \in MergeIdUrls, sc \in MergeScores})

\* Nine catalog items with distinct ids and scores, one more than the cap.
NineIds == <<"n1", "n2", "n3", "n4", "n5", "n6", "n7", "n8", "n9">>
NineItems == [i \in 1..Len(NineIds) |-> Validated(NineIds[i], "u1", "qdrant", 60 + i)]

InitMerge ==
    /\ \E q \in CatalogLists \cup {NineItems}, w \in WebLists :
          /\ q \in CatalogLists \/ Len(w) <= 1
          /\ state = [NewState(M_kurta) EXCEPT !.qdrant_valid = q, !.web_valid = w]
    /\ pc = "merge_node"
    /\ calls = <<>>
    /\ outcome = NONE
    /\ profile_db = NONE
    /\ mq = NoFanout
    /\ TrendsUnloaded

\* state = self.merge_node(state)
MergeStep ==
    /\ UNCHANGED trends_vars
    /\ pc = "merge_node"
    /\ state' = MergeNode(state)
    /\ pc' = "merged"
    /\ UNCHANGED <<calls, outcome, profile_db, mq>>

NextMerge == MergeStep

SpecMerge == InitMerge /\ [][NextMerge]_vars

-----------------------------------------------------------------------------
(* Properties                                                              *)

Genders == {"men", "women", "unisex"}

\* The calls of the current turn to the catalog index and to web search.
RetrievalCalls == {i \in 1..Len(calls) : calls[i].op \in {"catalog_search", "web_search"}}

Called(op) == \E i \in 1..Len(calls) : calls[i].op = op

\* The three prompts as session state holds them between turns.
GenderPending(st) == st.pending_gender_prompt
ClarificationPending(st) ==
    Truthy(st.clarification_options) /\ st.clarification_choice = NONE
DisambiguationPending(st) ==
    st.ui_event = "disambiguation" /\ st.chosen_disambiguation = NONE

\* A broad or specific turn has been answered.
PipelineTurnAnswered ==
    /\ pc = "idle"
    /\ outcome = "responded"
    /\ Called("parse")
    /\ state.fashion_query.query_type \in {"broad", "specific"}

\* The turn was halted before the gender gate, by the disambiguation cards or
\* by the clarifier's question.
HaltedBeforeGate ==
    /\ state.fashion_query.query_type = "specific"
    /\ \/ DisambiguationPending(state)
       \/ Called("clarifier") /\ ClarificationPending(state)

GenderPromptShown ==
    /\ state.pending_gender_prompt
    /\ state.mode = "gender_prompt"
    /\ state.clarification_options = GENDER_OPTIONS
    /\ state.stylist_response = "gender_prompt"

C2_PendingGenderReask ==
    [][(/\ pc = "idle"
        /\ state.pending_gender_prompt
        /\ state'.conversation_history # state.conversation_history
        /\ _extract_gender_from_message(state'.user_message) = NONE)
       => (/\ pc' = "idle"
           /\ outcome' = "responded"
           /\ state'.mode = "gender_prompt"
           /\ state'.clarification_options = GENDER_OPTIONS
           /\ state'.pending_gender_prompt
           /\ calls' = <<>>)]_vars

\* The gender prompt has been re-issued to a message without a gender word.
C2_Witness ==
    /\ pc = "idle"
    /\ outcome = "responded"
    /\ state.stylist_response = "gender_reask"
    /\ state.pending_gender_prompt
    /\ _extract_gender_from_message(state.user_message) = NONE
    /\ calls = <<>>

\* C3: between turns at most one of the three prompts is pending.
C3_AtMostOnePrompt ==
    pc = "idle" =>
       Cardinality({k \in {"gender", "clarification", "disambiguation"} :
                       \/ k = "gender" /\ GenderPending(state)
                       \/ k = "clarification" /\ ClarificationPending(state)
                       \/ k = "disambiguation" /\ DisambiguationPending(state)}) <= 1

C5_HistoryBounded ==
    pc = "idle" => Len(state.conversation_history) <= HistoryWindow


SortedByScoreDesc(l) ==
    \A i \in 1..(Len(l) - 1) : l[i].validator_score >= l[i + 1].validator_score

NoDuplicateIds(l) ==
    \A i, j \in 1..Len(l) : i # j => l[i].id # l[j].id

Elements(l) == {l[i] : i \in 1..Len(l)}

\* C6: the list MergeNode writes is sorted by non-increasing validator score,
\* holds no identifier twice and has at most 8 items.
C6_MergeSortedUniqueCapped ==
    pc = "merged" =>
       /\ SortedByScoreDesc(state.final_products)
       /\ NoDuplicateIds(state.final_products)
       /\ Len(state.final_products) <= FinalCap

\* MergeNode has cut nine distinct catalog items and a web item to eight.
C6_Witness ==
    /\ pc = "merged"
    /\ Len(state.qdrant_valid) + Len(state.web_valid) > FinalCap + 1
    /\ Len(state.final_products) = FinalCap

\* C7: of an identifier present in both lists, the merged list keeps the
\* catalog record, whatever the two validator scores.
C7_CatalogRecordWins ==
    pc = "merged" =>
       \A x \in Elements(state.final_products) :
          (/\ \E c \in Elements(state.qdrant_valid) : c.id = x.id
           /\ \E w \in Elements(state.web_valid) : w.id = x.id)
          => x \in Elements(state.qdrant_valid)

\* C8: candidates without an identifier are deduplicated by URL: of the
\* identifier-less inputs, every URL keeps one item in the merged list (the
\* inputs being few enough for the cap not to cut) and no URL keeps two.
C8_IdlessDedupedByUrl ==
    LET input == state.qdrant_valid \o state.web_valid
        kept == SelectSeq(state.final_products, LAMBDA x : x.id = NONE)
    IN (pc = "merged" /\ Len(input) <= FinalCap) =>
          /\ \A x \in Elements(input) :
                x.id = NONE => \E y \in Elements(kept) : y.url = x.url
          /\ \A i, j \in 1..Len(kept) : i # j => kept[i].url # kept[j].url

\* C9: merging a list with itself gives the list that merging it with the
\* empty list gives, and that list holds no identifier twice.
C9_MergeSelfIdempotent ==
    LET L == state.qdrant_valid IN
       /\ MergeLists(L, L) = MergeLists(L, <<>>)
       /\ NoDuplicateIds(MergeLists(L, L))
       /\ (pc = "merged" /\ state.web_valid = <<>>) =>
             state.final_products = MergeLists(L, L)

\* MergeNode has merged a list that repeats an identifier at two scores.
C9_Witness ==
    /\ pc = "merged"
    /\ state.web_valid = <<>>
    /\ Len(state.qdrant_valid) = 2
    /\ state.qdrant_valid[1].id = state.qdrant_valid[2].id
    /\ state.qdrant_valid[1].validator_score < state.qdrant_valid[2].validator_score
    /\ Len(state.final_products) = 1

\* all_results had the futures completed in submission order.
RECURSIVE Flatten(_)
Flatten(lists) ==
    IF lists = <<>> THEN <<>> ELSE Head(lists) \o Flatten(Tail(lists))

\* C10: after the fan-out of a broad turn the pooled list (items, order and
\* origin_query tags) is the one the submission order of the sub-queries
\* gives, for the same per-query results and the same oracle outcome; the
\* final list is its first eight.
C10_CompletionOrderIrrelevant ==
    (pc = "outfits" /\ Called("catalog_search")) =>
       \E oracle_ok \in BOOLEAN :
          /\ state.pooled_valid_products =
                PoolResults(Flatten(mq.returned), mq.queries, oracle_ok)
          /\ state.final_products = Take(state.pooled_valid_products, FinalCap)


Range(l) == {l[i] : i \in 1..Len(l)}

IsFootwear(q) == \E bad \in forbidden : Contains(Lower(q), bad)

\* C11: whatever the planner planned, the fan-out of a broad turn dispatches
\* at most 4 sub-query retrievals and no dispatched sub-query contains a
\* footwear token; no more retrievals are made than were dispatched.
C11_DispatchCappedNoFootwear ==
    pc \in {"mq_wait", "outfits"} =>
       /\ Len(mq.queries) <= MaxSubQueries
       /\ \A q \in Range(mq.queries) : ~IsFootwear(q)
       /\ Cardinality({i \in 1..Len(calls) : calls[i].op = "catalog_search"})
             <= Len(mq.queries)
       /\ Cardinality({i \in 1..Len(calls) : calls[i].op = "catalog_search"})
             <= MaxSubQueries

\* Nine queries were planned, footwear among them, and four were retrieved.
C11_Witness ==
    /\ pc = "outfits"
    /\ Len(state.planner_plan.product_queries) = 9
    /\ \E q \in Range(state.planner_plan.product_queries) : IsFootwear(q)
    /\ Len(mq.queries) = MaxSubQueries
    /\ Cardinality({i \in 1..Len(calls) : calls[i].op = "catalog_search"}) = MaxSubQueries


CallsOf(op) == {i \in 1..Len(calls) : calls[i].op = op}

KeysOf(l) == {DedupeKey(l[i]) : i \in 1..Len(l)}

\* C12: in a fan-out of k >= 1 sub-queries that return a candidate between
\* them, the reranker is called exactly once, after all k retrievals, over the
\* deduplicated union of their results; while retrievals are still running
\* it has not been called.
C12_SingleRerankAfterFanout ==
    /\ pc = "mq_wait" => CallsOf("rerank") = {}
    /\ (pc = "outfits" /\ mq.queries # <<>> /\ mq.all_results # <<>>) =>
          /\ Cardinality(CallsOf("rerank")) = 1
          /\ Cardinality(CallsOf("catalog_search")) = Len(mq.queries)
          /\ \A r \in CallsOf("rerank"), c \in CallsOf("catalog_search") : c < r
          /\ KeysOf(mq.rerank_input) =
                UNION {KeysOf(mq.returned[i]) : i \in 1..Len(mq.returned)}
          /\ Cardinality(KeysOf(mq.rerank_input)) = Len(mq.rerank_input)

\* Two sub-queries returned an item in common and the one rerank pass ran
\* over the union without the repeat.
C12_Witness ==
    /\ pc = "outfits"
    /\ Len(mq.queries) >= 2
    /\ Cardinality(CallsOf("rerank")) = 1
    /\ Len(mq.rerank_input) < Len(mq.all_results)
    /\ Len(mq.rerank_input) >= 2


OriginsOf(l) == {l[i].origin_query : i \in 1..Len(l)}

\* C13: after the fan-out, if every dispatched sub-query has a candidate
\* that survived deduplication, the pooled list holds an item of every
\* sub-query origin.
C13_EveryOriginRepresented ==
    (/\ pc = "outfits"
     /\ mq.queries # <<>>
     /\ Range(mq.queries) \subseteq OriginsOf(mq.rerank_input))
    => Range(mq.queries) \subseteq OriginsOf(state.pooled_valid_products)


BrandsOf(l) == {BrandKey(l[i]) : i \in 1..Len(l)}

BrandCount(l, b) == Cardinality({i \in 1..Len(l) : BrandKey(l[i]) = b})

\* C14: in the batch Reranker.rerank returns no brand holds more than 2 of
\* the top_k places, unless the whole batch has fewer than 2 distinct brands.
C14_BrandCapInWindow ==
    (pc = "reranked" /\ Cardinality(BrandsOf(state.qdrant_candidates)) >= RerankBrandCap)
    => \A b \in BrandsOf(state.qdrant_filtered) :
          BrandCount(state.qdrant_filtered, b) <= RerankBrandCap


\* C15: a candidate whose title contains the query's item type and whose
\* pattern does not mismatch is not rejected by the heuristic fallback,
\* whatever the query's colours and colour mode.  Candidates without an
\* image are always judged by the heuristic.
C15_HeuristicKeepsTitleMatch ==
    pc = "validated" =>
       \A c \in Range(state.qdrant_filtered) :
          (/\ ~c.has_image
           /\ c.title_ok
           /\ ~PatternMismatch(state.fashion_query, c))
          => /\ c \notin Range(outcome.invalid)
             /\ ~_validate_product(state.fashion_query, c)

\* C16: whatever the match oracle answers, every candidate handed to
\* validate is in exactly one of the valid and invalid outputs, once, and
\* every output item is one of the candidates.
C16_ValidInvalidPartition ==
    pc = "validated" =>
       LET out == outcome.valid \o outcome.invalid IN
       /\ \A c \in Range(state.qdrant_filtered) :
             Cardinality({i \in 1..Len(out) : out[i].id = c.id}) = 1
       /\ Range(out) \subseteq Range(state.qdrant_filtered)


FailedCalls(op) == {i \in 1..Len(calls) : calls[i].op = op /\ calls[i].failed}

Fallbacks(l) == SelectSeq(l, LAMBDA x : x.source = "qdrant-fallback")

\* C17: when the index, the ranking oracle or the match oracle fails in a
\* specific or broad turn, no exception leaves run_once and the turn ends with
\* a response; a failed retrieval gives 1 to 8 placeholder candidates tagged
\* qdrant-fallback, a failed rerank still returns candidates, and a failed
\* validation gives the heuristic's scores.
C17_FailuresDegrade ==
    /\ outcome # "error"
    /\ (pc = "idle" /\ calls # <<>>) =>
          outcome = "responded" /\ state.stylist_response # NONE
    /\ (pc \in {"validate", "merge"} /\ FailedCalls("catalog_search") # {}) =>
          /\ Len(state.qdrant_candidates) \in 1..FallbackCount
          /\ Fallbacks(state.qdrant_candidates) = state.qdrant_candidates
    /\ pc \in {"mq_wait", "outfits"} =>
          \A i \in 1..Len(mq.returned) :
             Fallbacks(mq.returned[i]) # <<>> =>
                /\ Len(mq.returned[i]) \in 1..FallbackCount
                /\ Fallbacks(mq.returned[i]) = mq.returned[i]
    /\ (pc \in {"mq_wait", "outfits"} /\ FailedCalls("catalog_search") # {}) =>
          Fallbacks(mq.all_results) # <<>>
    /\ (pc \in {"validate", "merge"} /\ FailedCalls("rerank") # {}) =>
          /\ state.qdrant_filtered # <<>>
          /\ Range(state.qdrant_filtered) \subseteq Range(state.qdrant_candidates)
    /\ (pc = "outfits" /\ FailedCalls("rerank") # {}) =>
          /\ state.pooled_valid_products # <<>>
          /\ Range(state.pooled_valid_products) \subseteq Range(mq.all_results)
    /\ (pc = "merge" /\ FailedCalls("vision") # {}) =>
          /\ state.qdrant_valid # <<>>
          /\ \A x \in Range(state.qdrant_valid) :
                /\ x.validator_score \in HeuristicFloor..HeuristicBaseCatalog
                /\ x.id \in {state.qdrant_filtered[i].id : i \in 1..Len(state.qdrant_filtered)}

\* A specific turn in which the index, the ranking oracle and the match oracle
\* all failed was answered from the placeholder candidates.
C17_Witness ==
    /\ pc = "idle"
    /\ outcome = "responded"
    /\ state.fashion_query.query_type = "specific"
    /\ FailedCalls("catalog_search") # {}
    /\ FailedCalls("rerank") # {}
    /\ FailedCalls("vision") # {}
    /\ state.final_products # <<>>
    /\ Fallbacks(state.final_products) = state.final_products


\* C18: when the planner's model call fails or its output cannot be parsed in
\* a broad turn, the turn still ends with a response, with no retrieval call
\* and no exception out of run_once.
C18_PlannerFailureContained ==
    (pc = "idle" /\ FailedCalls("planner") # {}) =>
        /\ outcome = "responded"
        /\ CallsOf("catalog_search") = {}
        /\ state.stylist_response # NONE


Before(a, b) == \A i \in CallsOf(a), j \in CallsOf(b) : i < j

ParsedBelow(threshold) ==
    \E i \in CallsOf("parse") : calls[i].confidence < threshold

\* C20: a turn whose parsed confidence is below 0.45 ends with the nudge
\* response and makes no planner, retrieval, rerank, validation or merge call.
C20_LowConfidenceNudges ==
    (pc = "idle" /\ ParsedBelow(NudgeThreshold)) =>
        /\ outcome = "responded"
        /\ state.mode = "nudge"
        /\ state.stylist_response = "nudge"
        /\ \A op \in {"planner", "catalog_search", "web_search", "rerank",
                      "vision", "web_vision", "merge"} : CallsOf(op) = {}


\* C21: a turn that is not a broad turn ends with no outfits; outfits of an
\* earlier broad turn neither appear in its response nor select the outfit
\* reply or the outfit refinements.
C21_OutfitsOnlyFromThisTurn ==
    (pc = "idle" /\ outcome = "responded" /\ CallsOf("planner") = {}) =>
        /\ state.outfits = <<>>
        /\ state.stylist_response # "outfits"
        /\ state.ui_event # "outfit_refinements"


\* The text has the word stem "men" that is not the tail of "women".
CarriesMen(q) ==
    LET lower == Lower(q) IN
    \E i \in 1..(Len(lower) - 2) :
       /\ SubSeq(lower, i, i + 2) = W_men
       /\ ~(i >= 3 /\ SubSeq(lower, i - 2, i + 2) = W_women)

CarriesWomen(q) == Contains(Lower(q), W_women)

\* C22: in a broad turn whose gender at dispatch is men or women, every
\* dispatched sub-query carries that gender's token and no token of the
\* opposite gender.
C22_SubQueriesCarryGender ==
    (pc = "mq_wait" /\ state.fashion_query.gender \in {"men", "women"}) =>
        \A i \in 1..Len(mq.queries) :
           IF state.fashion_query.gender = "women"
           THEN CarriesWomen(mq.queries[i]) /\ ~CarriesMen(mq.queries[i])
           ELSE CarriesMen(mq.queries[i]) /\ ~CarriesWomen(mq.queries[i])


\* C23: when the ranking oracle fails, Reranker.rerank returns the first
\* min(top_k, n) candidates in their input order, whatever their brands.
C23_FailedRerankKeepsOrder ==
    (pc = "reranked" /\ FailedCalls("rerank") # {}) =>
        state.qdrant_filtered =
            Take(state.qdrant_candidates,
                 Min(CatalogRerankTopK, Len(state.qdrant_candidates)))


\* C24: a pipeline turn that produced no candidate (the catalog matched nothing
\* in a specific turn, or the plan of a broad turn had no sub-query to
\* dispatch) ends with an empty final product list.
C24_NoCandidatesNoProducts ==
    /\ (pc = "idle" /\ outcome = "responded" /\ CallsOf("merge") # {}
          /\ state.qdrant_candidates = <<>>) =>
          state.final_products = <<>>
    /\ (pc = "idle" /\ outcome = "responded" /\ CallsOf("planner") # {}
          /\ ~state.pending_gender_prompt /\ CallsOf("catalog_search") = {}) =>
          state.final_products = <<>>


\* C25: a message whose only gender word is a women's word resolves to women:
\* in a turn whose message is "Womenswear" the persisted gender is women and
\* every catalog search of the turn is filtered to women.
C25_WomenswearResolvesWomen ==
    state.user_message = M_Womenswear =>
        /\ _extract_gender_from_message(state.user_message) = "women"
        /\ \A i \in CallsOf("catalog_search") : calls[i].gender = "women"


\* C26: the turn that answers a pending gender prompt and then runs the
\* specific pipeline leaves nothing of the prompt: no clarification question
\* or options in the session, and the product reply and product UI event.
C26_NoPromptResidue ==
    (pc = "idle" /\ CallsOf("merge") # {}) =>
        /\ ~state.pending_gender_prompt
        /\ state.clarification_question = NONE
        /\ ~Truthy(state.clarification_options)
        /\ state.stylist_response = "product"
        /\ state.ui_event # "clarification_cards"


\* C27: under the shipped Config, a finished specific turn whose catalog
\* validation left no valid candidate has called web retrieval and web
\* validation before its merge.
C27_WebFallbackReachable ==
    (pc = "idle" /\ CallsOf("merge") # {} /\ state.qdrant_valid = <<>>) =>
        /\ CallsOf("web_search") # {} /\ Before("web_search", "merge")
        /\ CallsOf("web_vision") # {} /\ Before("web_vision", "merge")


\* The turns that called get_fashion_trends_text.
Fetchers == {t \in Turns : trend_turns[t].fetched}

\* C28: at most one turn ever calls get_fashion_trends_text, however the
\* turns interleave at the await, and all turns read the same trends text.
C28_TrendsFetchedOnce ==
    /\ Cardinality(Fetchers) <= 1
    /\ \A t, u \in Turns :
           trend_turns[t].at = "done" /\ trend_turns[u].at = "done"
               => trend_turns[t].trends_context = trend_turns[u].trends_context


\* The oracle's reply when the call raises.
OracleRaised == [raised |-> TRUE, valid |-> <<>>, invalid |-> <<>>]

\* C29: when validate falls back to the heuristic, the accepted candidates'
\* scores do not increase with the position in the input batch, stay between
\* the floor and the catalog baseline, and only the first candidate of the
\* batch can be tagged best_match; candidates without an image included.
C29_HeuristicDecaysByPosition ==
    (pc = "validated" /\ FailedCalls("vision") # {}) =>
        LET batch == VisionCandidates(state)
            rows == VisionRows(state.fashion_query, batch, "qdrant", OracleRaised).valid
            Pos(id) == CHOOSE i \in 1..Len(batch) : batch[i].id = id
        IN /\ \A i, j \in 1..Len(state.qdrant_valid) :
                  Pos(state.qdrant_valid[i].id) < Pos(state.qdrant_valid[j].id)
                      => state.qdrant_valid[i].validator_score
                             >= state.qdrant_valid[j].validator_score
           /\ \A i \in 1..Len(state.qdrant_valid) :
                  state.qdrant_valid[i].validator_score
                      \in HeuristicFloor..HeuristicBaseCatalog
           /\ \A i \in 1..Len(rows) :
                  rows[i].tag = "best_match" => Pos(rows[i].id) = 1


\* The positions of the input whose item is among its brand's first
\* BrandPoolCap items.
HeadOf(products) ==
    {i \in 1..Len(products) :
        Cardinality({j \in 1..i : BrandKey(products[j]) = BrandKey(products[i])})
            <= BrandPoolCap}

\* C30: the brand-cap pass returns a permutation of its input; the first 3
\* items of every brand form the head in their input order, every other item
\* follows the head in input order, and the head holds at most 3 items of a
\* brand.
C30_BrandPoolPermutes ==
    pc = "brand_capped" =>
        LET products == state.qdrant_candidates
            n == Len(products)
            head == HeadOf(products)
            At(i) == CHOOSE k \in 1..Len(outcome) : outcome[k] = products[i]
        IN /\ Len(outcome) = n
           /\ \A i \in 1..n : Cardinality({k \in 1..n : outcome[k] = products[i]}) = 1
           /\ \A i, j \in 1..n :
                  (i < j /\ (i \in head <=> j \in head)) => At(i) < At(j)
           /\ \A i \in head, j \in (1..n) \ head : At(i) < At(j)
           /\ \A k \in 1..Cardinality(head) :
                  Cardinality({m \in 1..Cardinality(head) :
                                  BrandKey(outcome[m]) = BrandKey(outcome[k])})
                      <= BrandPoolCap

\* An overflow item was moved behind a later item of another brand.
C30_Witness ==
    /\ pc = "brand_capped"
    /\ outcome # state.qdrant_candidates
    /\ \E i \in 1..Len(outcome) : i \notin HeadOf(state.qdrant_candidates)

====
